---- MODULE Spec2Model ----
(***************************************************************************)
(* Voicemail greeting end detector (retape_ai): the decision engine, the   *)
(* beep and silence detectors, the phrase detector, the chunk streamer and *)
(* the transcript task, as one state machine.                              *)
(*                                                                         *)
(* Time is counted in microseconds (Go's time.Duration counts              *)
(* nanoseconds; every constant of the program is a whole number of         *)
(* milliseconds).  RMS and amplitude values are counted in thousandths.    *)
(* A chunk's samples are opaque to the streamer and the channel; what the  *)
(* detectors compute from them (calculateRMS, analyzeForBeep) is drawn     *)
(* when the detectors analyse the chunk.                                   *)
(***************************************************************************)
EXTENDS Integers, Sequences, FiniteSets, TLC

VARIABLES
    config,          \* *config.Config shared by all components
    wav,             \* the opened WAV file: [SampleRate]
    env,             \* the environment's script: what the file and the STT backend may deliver
    \* audio.Streamer and its goroutine
    currentTime,     \* Streamer.currentTime
    ch,              \* the chunk channel's buffer
    chClosed,        \* close(ch) has run
    spc,             \* streamer goroutine position
    pending,         \* the chunk the goroutine holds while blocked on ch <- chunk
    chunksRead,      \* chunks read from the file so far
    wavAtEnd,        \* the last read was short: the file has no more samples
    readErr,         \* ReadSamples returned an I/O error
    \* detector.BeepDetector
    beepDet,
    \* detector.SilenceDetector
    silDet,
    \* detector.PhraseDetector
    detected,
    \* detector.SpeechToText
    results,         \* the TranscriptEvent channel's buffer
    resultsClosed,
    delivered,       \* number of Message callbacks so far
    \* engine.DecisionEngine
    signals, transcript, beepDetected, beepConfirmedAt, phraseFound,
    expectsBeep, phraseTime, firstSilenceAt, decisionMade, decisionResult,
    \* DecisionEngine.Process
    pc,              \* decoder position
    chunk,           \* the loop variable
    lastChunkTime,
    sttEnabled,
    silenceEvent,    \* what silenceDetector.Process returned for the last chunk
    beepEvent,       \* what beepDetector.Process returned for the last chunk
    sound,           \* what the detectors computed from the last chunk's samples
    \* DecisionEngine.processTranscripts
    tpc,             \* transcript goroutine position
    event,           \* its loop variable
    phraseEvent,     \* its phraseEvent local
    \* history
    resultWrites,    \* number of assignments to decisionResult
    resultBy,        \* which assignment wrote decisionResult
    shape            \* run lengths of the scripted phases processed so far

vars == <<config, wav, env, currentTime, ch, chClosed, spc, pending, chunksRead,
          wavAtEnd, readErr, beepDet, silDet, detected, results, resultsClosed,
          delivered, signals, transcript, beepDetected, beepConfirmedAt,
          phraseFound, expectsBeep, phraseTime, firstSilenceAt, decisionMade,
          decisionResult, pc, chunk, lastChunkTime, sttEnabled, silenceEvent,
          beepEvent, sound, tpc, event, phraseEvent, resultWrites, resultBy, shape>>

(***************************************************************************)
(* Units and nil                                                           *)
(***************************************************************************)
Millisecond == 1000
Second == 1000 * Millisecond

Nil == <<>>
Some(x) == <<x>>
IsNil(p) == p = <<>>
Deref(p) == p[1]

Max(a, b) == IF a >= b THEN a ELSE b
Abs(a) == IF a >= 0 THEN a ELSE 0 - a

RECURSIVE GCD(_, _)
GCD(a, b) == IF b = 0 THEN a ELSE GCD(b, a % b)

(***************************************************************************)
(* config.Config                                                           *)
(***************************************************************************)
EndPhrases ==
    << <<"after", "the", "beep">>,
       <<"after", "the", "tone">>,
       <<"leave", "a", "message">>,
       <<"leave", "your", "message">>,
       <<"leave", "your", "name">>,
       <<"leave", "your", "number">>,
       <<"record", "your", "message">>,
       <<"at", "the", "tone">>,
       <<"at", "the", "beep">>,
       <<"please", "leave">>,
       <<"brief", "message">>,
       <<"please", "leave", "a", "message">>,
       <<"you", "may", "leave">>,
       <<"record", "a", "message">>,
       <<"your", "message", "after">> >>

DefaultConfig ==
    [ ChunkDuration    |-> 20 * Millisecond,
      BeepMinFreq      |-> 600,
      BeepMaxFreq      |-> 2500,
      BeepMinDuration  |-> 300 * Millisecond,
      BeepMinAmplitude |-> 20,
      SilenceThreshold |-> 10,
      SilenceMinDur    |-> 500 * Millisecond,
      BeepWaitTimeout  |-> 2 * Second,
      EnableSTT        |-> FALSE,
      EndPhrases       |-> EndPhrases ]

(***************************************************************************)
(* audio.AudioChunk and audio.Streamer                                     *)
(***************************************************************************)
\* int(float64(sampleRate) * cfg.ChunkDuration.Seconds())
SamplesPerChunk(cfg, sampleRate) ==
    (sampleRate * (cfg.ChunkDuration \div Millisecond)) \div 1000

\* time.Duration(float64(len(samples))/float64(s.wav.SampleRate())*1e9),
\* in microseconds; the fraction is reduced first to keep the product small
ActualDuration(n, sampleRate) ==
    LET g == GCD(1000000, sampleRate)
    IN  (n * (1000000 \div g)) \div (sampleRate \div g)

AudioChunk(n, timestamp, cfg) ==
    [ n |-> n, Timestamp |-> timestamp, Duration |-> cfg.ChunkDuration ]

NoChunk == [ n |-> 0, Timestamp |-> 0, Duration |-> 0 ]

ChanCap == 10

(***************************************************************************)
(* What the detectors compute from a chunk's samples: calculateRMS and     *)
(* analyzeForBeep.  A chunk whose in-band peak reaches BeepMinAmplitude    *)
(* cannot be silent: the Hann-windowed peak is at most 1.23 x RMS.         *)
(***************************************************************************)
Quiet    == [ rms |-> 5,  freq |-> 700,  amp |-> 1,   isTone |-> FALSE ]
Murmur   == [ rms |-> 20, freq |-> 800,  amp |-> 8,   isTone |-> FALSE ]
Voice    == [ rms |-> 50, freq |-> 900,  amp |-> 30,  isTone |-> FALSE ]
ToneA    == [ rms |-> 50, freq |-> 1000, amp |-> 100, isTone |-> TRUE ]
ToneSoft == [ rms |-> 20, freq |-> 1000, amp |-> 22,  isTone |-> TRUE ]
ToneB    == [ rms |-> 50, freq |-> 2000, amp |-> 100, isTone |-> TRUE ]
ToneLow  == [ rms |-> 50, freq |-> 300,  amp |-> 100, isTone |-> TRUE ]

NoSound == [ rms |-> 0, freq |-> 0, amp |-> 0, isTone |-> FALSE ]

(***************************************************************************)
(* detector.BeepDetector                                                   *)
(***************************************************************************)
\* minHits := int(150*time.Millisecond / cfg.ChunkDuration); at least 5
\* the threshold with the quotient rounded up
MinHitsCeil(cfg) ==
    Max(5, (150 * Millisecond + cfg.ChunkDuration - 1) \div cfg.ChunkDuration)

MinHits(cfg) == Max(5, (150 * Millisecond) \div cfg.ChunkDuration)

NewBeepDetector(cfg, sampleRate) ==
    [ sampleRate      |-> sampleRate,
      beepStartTime   |-> 0,
      beepActive      |-> FALSE,
      beepFrequency   |-> 0,
      beepAmplitude   |-> 0,
      consecutiveHits |-> 0,
      minHits         |-> MinHits(cfg),
      allBeeps        |-> <<>> ]

BeepReset(d) ==
    [ d EXCEPT !.beepActive = FALSE, !.consecutiveHits = 0,
               !.beepFrequency = 0, !.beepAmplitude = 0 ]

\* freqDiff := math.Abs(freq-d.beepFrequency) / d.beepFrequency; freqDiff > 0.15
FreqDeviates(freq, ref) == 100 * Abs(freq - ref) > 15 * ref

IsBeepLike(cfg, d, s) ==
    /\ s.freq >= cfg.BeepMinFreq
    /\ s.freq <= cfg.BeepMaxFreq
    /\ s.amp >= cfg.BeepMinAmplitude
    /\ s.isTone
    /\ ~(d.beepActive /\ FreqDeviates(s.freq, d.beepFrequency))

BeepLongEnoughEarly(d) == d.beepActive /\ d.consecutiveHits >= d.minHits - 1

\* the run is long enough to be reported
BeepLongEnough(d) == d.beepActive /\ d.consecutiveHits >= d.minHits

BeepEvent(d, c) ==
    [ StartTime |-> d.beepStartTime, EndTime |-> c.Timestamp,
      Frequency |-> d.beepFrequency, Amplitude |-> d.beepAmplitude ]

\* no chunk is too short to analyse
TooShortNever(c) == FALSE

\* if len(chunk.Samples) < 64 { return nil }
TooShort(c) == c.n < 64

\* BeepDetector.Process: the detector after the chunk, and the event or nil
BeepProcess(cfg, d, c, s) ==
    IF TooShort(c) THEN [ det |-> d, ev |-> Nil ]
    ELSE IF IsBeepLike(cfg, d, s)
    THEN LET d1 == IF ~d.beepActive
                   THEN [ d EXCEPT !.beepStartTime = c.Timestamp,
                                   !.beepFrequency = s.freq,
                                   !.beepAmplitude = s.amp ]
                   ELSE d
         IN  [ det |-> [ d1 EXCEPT !.consecutiveHits = @ + 1,
                                   !.beepActive = TRUE,
                                   !.beepFrequency = (8 * @ + 2 * s.freq) \div 10,
                                   !.beepAmplitude = Max(@, s.amp) ],
               ev  |-> Nil ]
    ELSE IF BeepLongEnough(d)
    THEN LET e == BeepEvent(d, c)
         IN  [ det |-> BeepReset([ d EXCEPT !.allBeeps = Append(@, e) ]),
               ev  |-> Some(e) ]
    ELSE [ det |-> BeepReset(d), ev |-> Nil ]

(***************************************************************************)
(* detector.SilenceDetector                                                *)
(***************************************************************************)
NewSilenceDetector(cfg) ==
    [ silenceStart     |-> 0,
      inSilence        |-> FALSE,
      hadSpeech        |-> FALSE,
      speechThreshold  |-> cfg.SilenceThreshold * 3,
      potentialEndTime |-> 0,
      confirmedEnd     |-> FALSE ]

\* reported before speech rather than after it
SilenceReportableUnheard(cfg, d, elapsed) ==
    ~d.hadSpeech /\ elapsed >= cfg.SilenceMinDur

SilenceReportableAnytime(cfg, d, elapsed) == elapsed >= cfg.SilenceMinDur

\* the silent run is old enough, after speech, to be reported
SilenceReportable(cfg, d, elapsed) == d.hadSpeech /\ elapsed >= cfg.SilenceMinDur

\* no silent run counts as short
ShortSilenceNever(silenceDuration) == FALSE

\* sound after a silent run this short clears the potential end
ShortSilence(silenceDuration) == silenceDuration < 2 * Second

\* SilenceDetector.Process: the detector after the chunk, and the event or nil.
\* lastSpeechTime and speechAfterSilence are written and never read.
SilenceProcess(cfg, d, c, s) ==
    LET isSilent == s.rms < cfg.SilenceThreshold
        isSpeech == s.rms >= d.speechThreshold
        now      == c.Timestamp + c.Duration
        d1       == IF isSpeech THEN [ d EXCEPT !.hadSpeech = TRUE ] ELSE d
    IN  IF isSilent
        THEN IF ~d1.inSilence
             THEN [ det |-> [ d1 EXCEPT !.silenceStart = c.Timestamp,
                                        !.inSilence = TRUE ],
                    ev  |-> Nil ]
             ELSE LET elapsed == now - d1.silenceStart
                  IN  IF SilenceReportable(cfg, d1, elapsed)
                      THEN LET pet  == IF d1.potentialEndTime = 0
                                       THEN d1.silenceStart
                                       ELSE d1.potentialEndTime
                               conf == IF now - pet >= 2 * Second
                                       THEN TRUE ELSE d1.confirmedEnd
                           IN  [ det |-> [ d1 EXCEPT !.potentialEndTime = pet,
                                                     !.confirmedEnd = conf ],
                                 ev  |-> Some([ StartTime |-> d1.silenceStart,
                                                EndTime   |-> now,
                                                Duration  |-> elapsed,
                                                Confirmed |-> conf ]) ]
                      ELSE [ det |-> d1, ev |-> Nil ]
        ELSE LET clear == d1.inSilence /\ ShortSilence(now - d1.silenceStart)
             IN  [ det |-> [ d1 EXCEPT
                               !.potentialEndTime = IF clear THEN 0 ELSE @,
                               !.confirmedEnd = IF clear THEN FALSE ELSE @,
                               !.inSilence = FALSE ],
                   ev  |-> Nil ]

(***************************************************************************)
(* detector.PhraseDetector                                                 *)
(***************************************************************************)
\* strings.ToLower, on the words the transcripts of the model use
ToLower(w) ==
    CASE w = "After" -> "after"
      [] w = "Leave" -> "leave"
      [] w = "BEEP"  -> "beep"
      [] OTHER       -> w

LowerText(text) == [ i \in 1..Len(text) |-> ToLower(text[i]) ]

\* pattern.MatchString(text) for the pattern (?i) + QuoteMeta(phrase):
\* the phrase occurs in the text
MatchString(phrase, text) ==
    \E k \in 0..(Len(text) - Len(phrase)) :
        \A i \in 1..Len(phrase) : ToLower(text[k + i]) = ToLower(phrase[i])

\* strings.Contains(phrase, word)
ContainsWord(phrase, w) == \E i \in 1..Len(phrase) : phrase[i] = w

\* the first pattern, in list order, that matches; 0 if none does
FirstMatch(cfg, text) ==
    LET hits == { i \in 1..Len(cfg.EndPhrases) : MatchString(cfg.EndPhrases[i], text) }
    IN  IF hits = {} THEN 0 ELSE CHOOSE i \in hits : \A j \in hits : i <= j

\* PhraseDetector.Process: the event or nil (d.detected is set to a returned event)
PhraseProcess(cfg, text, timestamp) ==
    LET lower == LowerText(text)
        i     == FirstMatch(cfg, lower)
    IN  IF i = 0 THEN Nil
        ELSE Some([ Timestamp |-> timestamp,
                    Phrase    |-> cfg.EndPhrases[i],
                    FullText  |-> lower ])

(***************************************************************************)
(* engine.DecisionEngine: signals, results, rules                          *)
(***************************************************************************)
PostBeepVerifyLonger == 600 * Millisecond

PostBeepVerifyDuration == 500 * Millisecond

ResultsCap == 100

Details(text, freq, duration, phrase) ==
    [ text |-> text, freq |-> freq, duration |-> duration, phrase |-> phrase ]

Signal(type, timestamp, details) ==
    [ Type |-> type, Timestamp |-> timestamp, Details |-> details ]

IntermediateNote == "intermediate beep - speech resumed, ignoring"

BeepSignal(e) ==
    Signal("beep", e.EndTime,
           Details("freq, duration", e.Frequency, e.EndTime - e.StartTime, <<>>))

SilenceSignal(e) ==
    Signal("silence", e.StartTime, Details("confirmed silence", 0, e.Duration, <<>>))

\* a beep note stamped one chunk after the end of its chunk
NoteSignalLate(c) ==
    Signal("beep", c.Timestamp + 2 * c.Duration, Details(IntermediateNote, 0, 0, <<>>))

NoteSignal(c) ==
    Signal("beep", c.Timestamp, Details(IntermediateNote, 0, 0, <<>>))

PhraseSignal(e) ==
    Signal("phrase", e.Timestamp, Details("matched", 0, 0, e.Phrase))

ReasonBeepConfirmed == "Beep detected and confirmed (no speech resumed) - dropping after beep"
ReasonPhraseSilence == "End phrase + silence detected (no beep expected) - dropping"
ReasonPhraseBeepTimeout == "Phrase indicated beep expected, waited 5s - dropping"
\* "waited %.1fs" of BeepWaitTimeout.Seconds(), which is 2 s in every configuration here
ReasonSilenceTimeout == "Confirmed silence, waited 2.0s for beep - dropping"
ReasonBeepAtEnd == "Beep detected at end - dropping after beep"
ReasonSilenceNoBeep == "Silence after speech - no beep detected"
ReasonPhraseOnly == "End phrase detected"
ReasonFallback == "No clear signal - using fallback (90% of duration)"

InVerifyWindowShort(timeSinceBeep) ==
    timeSinceBeep > 0 /\ timeSinceBeep < 300 * Millisecond

\* the beep verification of processChunk: speech resumed inside the window
InVerifyWindow(timeSinceBeep) ==
    timeSinceBeep > 0 /\ timeSinceBeep < PostBeepVerifyDuration

SpeechResumed(ev, det) == IsNil(ev) /\ ~det.inSilence

\* the conditions of the four priorities of checkForDecision
Rule1Holds == ~IsNil(beepDetected) /\ beepConfirmedAt > 0

Rule2Holds(now) ==
    /\ phraseFound /\ firstSilenceAt > 0 /\ ~expectsBeep
    /\ now - firstSilenceAt >= 1 * Second

Rule3Holds(now) ==
    /\ expectsBeep /\ firstSilenceAt > 0
    /\ now - firstSilenceAt >= 5 * Second

Rule4Unguarded(now) ==
    /\ firstSilenceAt > 0 /\ silDet.hadSpeech
    /\ now - firstSilenceAt >= config.BeepWaitTimeout

Rule4Holds(now) ==
    /\ firstSilenceAt > 0 /\ silDet.hadSpeech /\ ~expectsBeep
    /\ now - firstSilenceAt >= config.BeepWaitTimeout

Decision(rule, dropTime, reason) ==
    [ rule |-> rule, dropTime |-> dropTime, reason |-> reason ]

CheckForDecisionLate(now) ==
    IF Rule3Holds(now)
    THEN Some(Decision(3, firstSilenceAt + 200 * Millisecond, ReasonPhraseBeepTimeout))
    ELSE IF Rule1Holds
    THEN Some(Decision(1, Deref(beepDetected).EndTime + 50 * Millisecond,
                       ReasonBeepConfirmed))
    ELSE IF Rule2Holds(now)
    THEN Some(Decision(2, firstSilenceAt + 200 * Millisecond, ReasonPhraseSilence))
    ELSE IF Rule4Holds(now)
    THEN Some(Decision(4, firstSilenceAt + 200 * Millisecond, ReasonSilenceTimeout))
    ELSE Nil

\* checkForDecision: the rule that fires at currentTime, with the arguments
\* it passes to makeDecision, or nil
CheckForDecision(now) ==
    IF Rule1Holds
    THEN Some(Decision(1, Deref(beepDetected).EndTime + 50 * Millisecond,
                       ReasonBeepConfirmed))
    ELSE IF Rule2Holds(now)
    THEN Some(Decision(2, firstSilenceAt + 200 * Millisecond, ReasonPhraseSilence))
    ELSE IF Rule3Holds(now)
    THEN Some(Decision(3, firstSilenceAt + 200 * Millisecond, ReasonPhraseBeepTimeout))
    ELSE IF Rule4Holds(now)
    THEN Some(Decision(4, firstSilenceAt + 200 * Millisecond, ReasonSilenceTimeout))
    ELSE Nil

\* the dead air makeDecision computes
DecisionDeadAir(decisionTime) ==
    IF firstSilenceAt > 0 THEN decisionTime - firstSilenceAt
    ELSE IF ~IsNil(beepDetected) THEN decisionTime - Deref(beepDetected).EndTime
    ELSE 0

\* the Result makeDecision builds
MakeDecision(dropTime, reason, decisionTime) ==
    [ RecommendedDropTime |-> dropTime,
      Reason              |-> reason,
      Signals             |-> signals,
      Transcript          |-> transcript,
      DecisionMadeAt      |-> decisionTime,
      DeadAir             |-> DecisionDeadAir(decisionTime) ]

FinalChoiceSilenceFirst(totalDuration) ==
    IF firstSilenceAt > 0 /\ silDet.hadSpeech
    THEN [ dropTime |-> firstSilenceAt + 200 * Millisecond,
           reason |-> ReasonSilenceNoBeep ]
    ELSE IF ~IsNil(beepDetected)
    THEN [ dropTime |-> Deref(beepDetected).EndTime + 50 * Millisecond,
           reason |-> ReasonBeepAtEnd ]
    ELSE IF phraseFound /\ ~IsNil(detected)
    THEN [ dropTime |-> Deref(detected).Timestamp + 1 * Second,
           reason |-> ReasonPhraseOnly ]
    ELSE [ dropTime |-> (totalDuration * 9) \div 10, reason |-> ReasonFallback ]

\* the drop time and reason makeFinalDecision chooses
FinalChoice(totalDuration) ==
    IF ~IsNil(beepDetected)
    THEN [ dropTime |-> Deref(beepDetected).EndTime + 50 * Millisecond,
           reason |-> ReasonBeepAtEnd ]
    ELSE IF firstSilenceAt > 0 /\ silDet.hadSpeech
    THEN [ dropTime |-> firstSilenceAt + 200 * Millisecond,
           reason |-> ReasonSilenceNoBeep ]
    ELSE IF phraseFound
    THEN IF ~IsNil(detected)
         THEN [ dropTime |-> Deref(detected).Timestamp + 1 * Second,
                reason |-> ReasonPhraseOnly ]
         ELSE [ dropTime |-> 0, reason |-> "" ]
    ELSE [ dropTime |-> (totalDuration * 9) \div 10, reason |-> ReasonFallback ]

\* the dead air makeFinalDecision computes
FinalDeadAir(totalDuration) ==
    IF firstSilenceAt > 0 THEN totalDuration - firstSilenceAt ELSE 0

\* the Result makeFinalDecision builds
MakeFinalDecision(totalDuration) ==
    LET c == FinalChoice(totalDuration)
    IN  [ RecommendedDropTime |-> c.dropTime,
          Reason              |-> c.reason,
          Signals             |-> signals,
          Transcript          |-> transcript,
          DecisionMadeAt      |-> totalDuration,
          DeadAir             |-> FinalDeadAir(totalDuration) ]

\* a loop that is never left before the end of the stream
LoopBreaksNever == FALSE

\* Process: the loop is left once a decision has been made
LoopBreaks == decisionMade

FinalNeededAlways == TRUE

\* Process: the end-of-stream fallback runs if no decision has been made
FinalNeeded == ~decisionMade

(***************************************************************************)
(* The state after NewDecisionEngine(cfg, sampleRate)                      *)
(***************************************************************************)
InitWith(cfg, w, e) ==
    /\ config = cfg
    /\ wav = w
    /\ env = e
    /\ currentTime = 0
    /\ ch = <<>>
    /\ chClosed = FALSE
    /\ spc = "idle"
    /\ pending = NoChunk
    /\ chunksRead = 0
    /\ wavAtEnd = FALSE
    /\ readErr = FALSE
    /\ beepDet = NewBeepDetector(cfg, w.SampleRate)
    /\ silDet = NewSilenceDetector(cfg)
    /\ detected = Nil
    /\ results = <<>>
    /\ resultsClosed = FALSE
    /\ delivered = 0
    /\ signals = <<>>
    /\ transcript = <<>>
    /\ beepDetected = Nil
    /\ beepConfirmedAt = 0
    /\ phraseFound = FALSE
    /\ expectsBeep = FALSE
    /\ phraseTime = 0
    /\ firstSilenceAt = 0
    /\ decisionMade = FALSE
    /\ decisionResult = Nil
    /\ pc = "start"
    /\ chunk = NoChunk
    /\ lastChunkTime = 0
    /\ sttEnabled = FALSE
    /\ silenceEvent = Nil
    /\ beepEvent = Nil
    /\ sound = NoSound
    /\ tpc = "idle"
    /\ event = Nil
    /\ phraseEvent = Nil
    /\ resultWrites = 0
    /\ resultBy = "none"
    /\ shape = <<>>

streamerVars == <<currentTime, ch, chClosed, spc, pending, chunksRead, wavAtEnd, readErr>>
detectorVars == <<beepDet, silDet>>
sttVars == <<results, resultsClosed, delivered>>
phraseVars == <<detected, transcript, phraseFound, expectsBeep, phraseTime>>
beepVars == <<beepDetected, beepConfirmedAt>>
decisionVars == <<decisionMade, decisionResult, resultWrites, resultBy>>
chunkVars == <<chunk, lastChunkTime, silenceEvent, beepEvent, sound, shape>>
taskVars == <<tpc, event, phraseEvent>>
inputVars == <<config, wav, env>>

(***************************************************************************)
(* DecisionEngine.Process, the decoder task                                *)
(***************************************************************************)
\* where Process goes when the chunk loop ends
AfterLoop == IF sttEnabled THEN "settle" ELSE "final"

\* STT taken as connected whatever the configuration and Connect say
SttConnectedAlways(enabled, connects) == TRUE

\* if e.stt.IsEnabled() { if err := e.stt.Connect(); err != nil {...} else
\* { sttEnabled = true; ... } }
SttConnected(enabled, connects) == enabled /\ connects

\* NewStreamer, the detectors for the file's sample rate, the STT connection,
\* the transcript goroutine, and the streamer goroutine of StreamWithPacing
Start ==
    /\ pc = "start"
    /\ \E opened \in env.opens : \E connects \in env.connects :
         IF ~opened
         THEN /\ pc' = "failed"
              /\ UNCHANGED <<spc, beepDet, sttEnabled, tpc>>
         ELSE /\ pc' = "loop"
              /\ spc' = "read"
              /\ beepDet' = NewBeepDetector(config, wav.SampleRate)
              /\ sttEnabled' = SttConnected(config.EnableSTT, connects)
              /\ tpc' = IF SttConnected(config.EnableSTT, connects)
                        THEN "recv" ELSE "idle"
    /\ UNCHANGED <<inputVars, currentTime, ch, chClosed, pending, chunksRead,
                   wavAtEnd, readErr, silDet, sttVars, phraseVars, signals,
                   beepVars, firstSilenceAt, decisionVars, chunkVars, event,
                   phraseEvent>>

\* for chunk := range ch, on a closed and drained channel: the loop ends
EndOfStream ==
    /\ pc = "loop"
    /\ ch = <<>>
    /\ chClosed
    /\ pc' = AfterLoop
    /\ UNCHANGED <<inputVars, streamerVars, detectorVars, sttVars, phraseVars,
                   signals, beepVars, firstSilenceAt, decisionVars, chunkVars,
                   sttEnabled, taskVars>>

\* the transcript task has nothing to do
TranscriptIdle == results = <<>> /\ tpc \in {"idle", "recv", "done"}

\* the scripted phase the next chunk may belong to: the current one while it
\* may grow, or the next one
NextPhases ==
    { p \in {Len(shape), Len(shape) + 1} :
        /\ p >= 1
        /\ p <= Len(env.script)
        /\ p = Len(shape) => shape[p] < env.script[p].max
        /\ (p > Len(shape) /\ env.sync) => TranscriptIdle }

Advance(sh, p) ==
    IF p = Len(sh) THEN [ sh EXCEPT ![p] = @ + 1 ] ELSE Append(sh, 1)

\* one pass of the loop body up to the break: the next chunk is received,
\* lastChunkTime is set, processChunk runs, and the loop is left once a
\* decision has been made
Chunk ==
    /\ pc = "loop"
    /\ ch # <<>>
    /\ \E p \in NextPhases : \E s \in env.script[p].sounds :
         LET c       == Head(ch)
             b       == BeepProcess(config, beepDet, c, s)
             gotBeep == ~IsNil(b.ev)
             sig1    == IF gotBeep THEN Append(signals, BeepSignal(Deref(b.ev)))
                        ELSE signals
             bd1     == IF gotBeep THEN b.ev ELSE beepDetected
             bc1     == IF gotBeep THEN 0 ELSE beepConfirmedAt
             sl      == SilenceProcess(config, silDet, c, s)
             first   == /\ ~IsNil(sl.ev)
                        /\ Deref(sl.ev).Confirmed
                        /\ firstSilenceAt = 0
             sig2    == IF first THEN Append(sig1, SilenceSignal(Deref(sl.ev)))
                        ELSE sig1
             verify  == ~IsNil(bd1) /\ bc1 = 0
             since   == IF verify THEN c.Timestamp - Deref(bd1).EndTime ELSE 0
             resumed == verify /\ InVerifyWindow(since) /\ SpeechResumed(sl.ev, sl.det)
             confirm == /\ verify /\ ~InVerifyWindow(since)
                        /\ since >= PostBeepVerifyDuration
         IN  /\ chunk' = c
             /\ ch' = Tail(ch)
             /\ lastChunkTime' = c.Timestamp + c.Duration
             /\ beepDet' = b.det
             /\ beepEvent' = b.ev
             /\ silDet' = sl.det
             /\ silenceEvent' = sl.ev
             /\ firstSilenceAt' = IF first THEN Deref(sl.ev).StartTime
                                  ELSE firstSilenceAt
             /\ signals' = IF resumed THEN Append(sig2, NoteSignal(c)) ELSE sig2
             /\ beepDetected' = IF resumed THEN Nil ELSE bd1
             /\ beepConfirmedAt' = IF confirm THEN c.Timestamp ELSE bc1
             /\ sound' = s
             /\ shape' = Advance(shape, p)
    /\ pc' = IF LoopBreaks THEN AfterLoop ELSE "check"
    /\ UNCHANGED <<inputVars, currentTime, chClosed, spc, pending, chunksRead,
                   wavAtEnd, readErr, sttVars, phraseVars, decisionVars,
                   sttEnabled, taskVars>>

\* checkForDecision(lastChunkTime), with makeDecision when a rule fires
Check ==
    /\ pc = "check"
    /\ LET d == CheckForDecision(lastChunkTime)
       IN  IF IsNil(d)
           THEN UNCHANGED decisionVars
           ELSE /\ decisionMade' = TRUE
                /\ decisionResult' =
                       Some(MakeDecision(Deref(d).dropTime, Deref(d).reason, lastChunkTime))
                /\ resultWrites' = resultWrites + 1
                /\ resultBy' = "rule"
    /\ pc' = "loop"
    \* processChunk's locals are gone
    /\ silenceEvent' = Nil
    /\ beepEvent' = Nil
    /\ sound' = NoSound
    /\ UNCHANGED <<inputVars, streamerVars, detectorVars, sttVars, phraseVars,
                   signals, beepVars, firstSilenceAt, chunk, lastChunkTime, shape,
                   sttEnabled, taskVars>>

\* time.Sleep(2 * time.Second) when STT is enabled
Settle ==
    /\ pc = "settle"
    /\ pc' = "final"
    /\ UNCHANGED <<inputVars, streamerVars, detectorVars, sttVars, phraseVars,
                   signals, beepVars, firstSilenceAt, decisionVars, chunkVars,
                   sttEnabled, taskVars>>

\* the end-of-stream fallback, the return, and the deferred e.stt.Close()
Final ==
    /\ pc = "final"
    /\ IF FinalNeeded
       THEN /\ decisionResult' = Some(MakeFinalDecision(lastChunkTime))
            /\ resultWrites' = resultWrites + 1
            /\ resultBy' = "final"
            /\ UNCHANGED decisionMade
       ELSE UNCHANGED decisionVars
    /\ resultsClosed' = sttEnabled
    /\ pc' = "done"
    /\ UNCHANGED <<inputVars, streamerVars, detectorVars, results, delivered,
                   phraseVars, signals, beepVars, firstSilenceAt, chunkVars,
                   sttEnabled, taskVars>>

(***************************************************************************)
(* Streamer.StreamWithPacing, the goroutine                                *)
(***************************************************************************)
\* what wav.ReadSamples(samplesPerChunk) may return: n samples, or none with
\* io.EOF or an I/O error
ReadOutcomes ==
    LET full == SamplesPerChunk(config, wav.SampleRate)
        more == ~wavAtEnd /\ chunksRead < env.maxChunks
    IN  (IF more
         THEN { [ n |-> k, err |-> FALSE ] :
                    k \in {full} \cup { x \in env.shortLens : x < full } }
         ELSE {})
        \cup (IF ~more \/ chunksRead >= env.minChunks
              THEN { [ n |-> 0, err |-> FALSE ] } ELSE {})
        \cup (IF env.ioErrors THEN { [ n |-> 0, err |-> TRUE ] } ELSE {})

\* chunks sent and not yet through the decoder's loop body
InFlight == Len(ch) + (IF pc = "check" THEN 1 ELSE 0)

\* samples, err := s.wav.ReadSamples(...); the returns with the deferred close(ch).
\* The goroutine runs at most env.maxAhead chunks ahead of the decoder.
Read ==
    /\ spc = "read"
    /\ InFlight < env.maxAhead
    /\ \E o \in ReadOutcomes :
         IF o.n > 0
         THEN /\ pending' = AudioChunk(o.n, currentTime, config)
              /\ spc' = "send"
              /\ chunksRead' = chunksRead + 1
              /\ wavAtEnd' = (o.n < SamplesPerChunk(config, wav.SampleRate))
              /\ UNCHANGED <<chClosed, readErr>>
         ELSE /\ chClosed' = TRUE
              /\ spc' = "done"
              /\ readErr' = o.err
              /\ UNCHANGED <<pending, chunksRead, wavAtEnd>>
    /\ UNCHANGED <<inputVars, currentTime, ch, detectorVars, sttVars, phraseVars,
                   signals, beepVars, firstSilenceAt, decisionVars, pc, chunkVars,
                   sttEnabled, taskVars>>

\* ch <- chunk, blocking while the buffer is full; s.currentTime += actualDuration
Send ==
    /\ spc = "send"
    /\ Len(ch) < ChanCap
    /\ ch' = Append(ch, pending)
    /\ currentTime' = currentTime + ActualDuration(pending.n, wav.SampleRate)
    /\ pending' = NoChunk
    /\ spc' = "read"
    /\ UNCHANGED <<inputVars, chClosed, chunksRead, wavAtEnd, readErr,
                   detectorVars, sttVars, phraseVars, signals, beepVars,
                   firstSilenceAt, decisionVars, pc, chunkVars, sttEnabled,
                   taskVars>>

(***************************************************************************)
(* messageHandler.Message, the STT backend's callback                      *)
(***************************************************************************)
TranscriptEvent(text, timestamp) == [ Text |-> text, Timestamp |-> timestamp ]

\* a send that always finds room
OfferUnbounded(queue, e) == Append(queue, e)

\* the select with default: a full channel drops the event
Offer(queue, e) == IF Len(queue) < ResultsCap THEN Append(queue, e) ELSE queue

\* the transcripts the next event may carry: the first env.filler events
\* of a run are one-word transcripts that match no phrase
EventTexts == IF delivered < env.filler THEN {<<"hello">>} ELSE env.texts

Message ==
    /\ sttEnabled
    /\ pc \in {"loop", "check", "settle", "final"}
    /\ lastChunkTime > 0
    /\ Len(shape) \in env.eventPhases
    /\ delivered < env.maxEvents
    /\ \E text \in EventTexts : \E ts \in { t \in env.times : t <= lastChunkTime } :
         results' = IF text = <<>> THEN results
                    ELSE Offer(results, TranscriptEvent(text, ts))
    /\ delivered' = delivered + 1
    /\ UNCHANGED <<inputVars, streamerVars, detectorVars, resultsClosed,
                   phraseVars, signals, beepVars, firstSilenceAt, decisionVars,
                   pc, chunkVars, sttEnabled, taskVars>>

(***************************************************************************)
(* DecisionEngine.processTranscripts, the transcript task.  It shares the  *)
(* engine's fields with the decoder without a lock: each statement is a    *)
(* step of its own.                                                        *)
(***************************************************************************)
\* for event := range results; e.transcript += " " + event.Text;
\* phraseEvent := e.phraseDetector.Process(event.Text, event.Timestamp)
\* The goroutine is not scheduled before env.filler events have been delivered.
TRecv ==
    /\ tpc = "recv"
    /\ delivered >= env.filler
    /\ IF results # <<>>
       THEN LET ev == Head(results)
                pe == PhraseProcess(config, ev.Text, ev.Timestamp)
            IN  /\ event' = Some(ev)
                /\ results' = Tail(results)
                /\ transcript' = transcript \o ev.Text
                /\ phraseEvent' = pe
                /\ detected' = IF IsNil(pe) THEN detected ELSE pe
                /\ tpc' = IF IsNil(pe) THEN "recv" ELSE "found"
       ELSE /\ resultsClosed
            /\ tpc' = "done"
            /\ UNCHANGED <<event, results, transcript, phraseEvent, detected>>
    /\ UNCHANGED <<inputVars, streamerVars, detectorVars, resultsClosed, delivered,
                   phraseFound, expectsBeep, phraseTime, signals, beepVars,
                   firstSilenceAt, decisionVars, pc, chunkVars, sttEnabled>>

\* e.phraseFound = true; e.phraseTime is set if it is 0
TFound ==
    /\ tpc = "found"
    /\ phraseFound' = TRUE
    /\ phraseTime' = IF phraseTime = 0 THEN Deref(phraseEvent).Timestamp ELSE phraseTime
    /\ tpc' = "expects"
    /\ UNCHANGED <<inputVars, streamerVars, detectorVars, sttVars, detected,
                   transcript, expectsBeep, signals, beepVars, firstSilenceAt,
                   decisionVars, pc, chunkVars, sttEnabled, event, phraseEvent>>

\* strings.Contains(phrase, "beep") || strings.Contains(phrase, "tone")
PhraseExpectsBeep(phrase) == ContainsWord(phrase, "beep") \/ ContainsWord(phrase, "tone")

TExpects ==
    /\ tpc = "expects"
    /\ expectsBeep' = IF PhraseExpectsBeep(LowerText(Deref(phraseEvent).Phrase))
                      THEN TRUE ELSE expectsBeep
    /\ tpc' = "signal"
    /\ UNCHANGED <<inputVars, streamerVars, detectorVars, sttVars, detected,
                   transcript, phraseFound, phraseTime, signals, beepVars,
                   firstSilenceAt, decisionVars, pc, chunkVars, sttEnabled,
                   event, phraseEvent>>

\* e.signals = append(e.signals, Signal{Type: "phrase", ...})
TSignal ==
    /\ tpc = "signal"
    /\ signals' = Append(signals, PhraseSignal(Deref(phraseEvent)))
    /\ tpc' = "recv"
    /\ UNCHANGED <<inputVars, streamerVars, detectorVars, sttVars, phraseVars,
                   beepVars, firstSilenceAt, decisionVars, pc, chunkVars,
                   sttEnabled, event, phraseEvent>>

(***************************************************************************)
(* Specifications                                                          *)
(***************************************************************************)
AllSounds == { Quiet, Murmur, Voice, ToneA, ToneSoft, ToneB, ToneLow }

Phase(sounds, max) == [ sounds |-> sounds, max |-> max ]

PlainText == <<"hello">>
LeaveText == <<"please", "Leave", "a", "message">>
BeepText  == <<"message", "After", "the", "BEEP">>
ToneText  == <<"Leave", "a", "message", "at", "the", "tone">>

\* bounds of the worlds
MaxChunks == 9
MaxEvents == 1
MaxAhead == 1
MaxVoice == 2
MaxTail == 3
MaxToneRun == 17
MaxQuietRun == 28
MaxOver == 2

CoarseConfig == [ DefaultConfig EXCEPT !.ChunkDuration = 400 * Millisecond ]

\* any sound in any order, no STT, short streams of coarse chunks
FreeEnv ==
    [ maxChunks |-> MaxChunks, minChunks |-> 0,
      script |-> << Phase(AllSounds, MaxChunks) >>,
      shortLens |-> {32}, ioErrors |-> FALSE, opens |-> {TRUE},
      connects |-> {TRUE}, maxEvents |-> 0, texts |-> {},
      times |-> {}, eventPhases |-> {}, sync |-> FALSE, maxAhead |-> MaxAhead,
      filler |-> 0 ]

FreeWorld == [ config |-> CoarseConfig, wav |-> [ SampleRate |-> 16000 ], env |-> FreeEnv ]

\* speech, silence, a tone, silence, with transcripts during the speech and
\* the first silence
SttEnv ==
    [ maxChunks |-> 18 + MaxVoice + MaxTail, minChunks |-> 0,
      script |-> << Phase({Voice}, MaxVoice), Phase({Quiet}, 13),
                    Phase({ToneA}, 5), Phase({Quiet}, MaxTail) >>,
      shortLens |-> {}, ioErrors |-> FALSE, opens |-> {TRUE},
      connects |-> {TRUE, FALSE}, maxEvents |-> MaxEvents,
      texts |-> {LeaveText, BeepText},
      times |-> {400 * Millisecond}, eventPhases |-> {1, 2}, sync |-> FALSE,
      maxAhead |-> MaxAhead, filler |-> 0 ]

SttWorld ==
    [ config |-> [ CoarseConfig EXCEPT !.EnableSTT = TRUE ],
      wav |-> [ SampleRate |-> 16000 ], env |-> SttEnv ]

\* the default configuration: a tone, then silence, then the end of the file
ToneEnv ==
    [ maxChunks |-> MaxToneRun + MaxQuietRun, minChunks |-> 0,
      script |-> << Phase({ToneA, ToneSoft}, MaxToneRun), Phase({Quiet}, MaxQuietRun) >>,
      shortLens |-> {100}, ioErrors |-> FALSE, opens |-> {TRUE},
      connects |-> {TRUE}, maxEvents |-> 0, texts |-> {},
      times |-> {}, eventPhases |-> {}, sync |-> FALSE, maxAhead |-> MaxAhead,
      filler |-> 0 ]

ToneWorld == [ config |-> DefaultConfig, wav |-> [ SampleRate |-> 16000 ], env |-> ToneEnv ]

\* the default configuration on short streams of any sounds, at a sample rate
\* that gives whole chunks and at one that does not
BeepEnv == [ FreeEnv EXCEPT !.shortLens = {32, 100} ]

BeepWorlds ==
    { [ config |-> DefaultConfig, wav |-> [ SampleRate |-> r ], env |-> BeepEnv ] :
        r \in {16000, 11025} }

\* the default configuration with STT: speech during which a transcript is
\* delivered and handled, then six seconds of silence
SilentChunks == (6 * Second) \div DefaultConfig.ChunkDuration

S4Env ==
    [ maxChunks |-> MaxVoice + SilentChunks, minChunks |-> 0,
      script |-> << Phase({Voice}, MaxVoice), Phase({Quiet}, SilentChunks) >>,
      shortLens |-> {}, ioErrors |-> FALSE, opens |-> {TRUE},
      connects |-> {TRUE}, maxEvents |-> MaxEvents,
      texts |-> {PlainText, BeepText},
      times |-> {20 * Millisecond}, eventPhases |-> {1}, sync |-> TRUE,
      maxAhead |-> MaxAhead, filler |-> 0 ]

S4World ==
    [ config |-> [ DefaultConfig EXCEPT !.EnableSTT = TRUE ],
      wav |-> [ SampleRate |-> 16000 ], env |-> S4Env ]

\* one fixed input: a chunk of speech and thirteen silent chunks, and one
\* transcript event, "message After the BEEP", delivered after the first chunk
DetEnv ==
    [ maxChunks |-> 14, minChunks |-> 14,
      script |-> << Phase({Voice}, 1), Phase({Quiet}, 13) >>,
      shortLens |-> {}, ioErrors |-> FALSE, opens |-> {TRUE},
      connects |-> {TRUE}, maxEvents |-> 1,
      texts |-> {BeepText},
      times |-> {400 * Millisecond}, eventPhases |-> {1}, sync |-> FALSE,
      maxAhead |-> MaxAhead, filler |-> 0 ]

DetWorld ==
    [ config |-> [ CoarseConfig EXCEPT !.EnableSTT = TRUE ],
      wav |-> [ SampleRate |-> 16000 ], env |-> DetEnv ]

\* the default configuration without STT: a stream of silence only, of any
\* length up to 2.6 seconds, the last chunk possibly short
QuietChunks == (2600 * Millisecond) \div DefaultConfig.ChunkDuration

QuietEnv ==
    [ maxChunks |-> QuietChunks, minChunks |-> 0,
      script |-> << Phase({Quiet}, QuietChunks) >>,
      shortLens |-> {100}, ioErrors |-> FALSE, opens |-> {TRUE},
      connects |-> {TRUE}, maxEvents |-> 0, texts |-> {}, times |-> {},
      eventPhases |-> {}, sync |-> FALSE, maxAhead |-> MaxAhead,
      filler |-> 0 ]

QuietWorld ==
    [ config |-> DefaultConfig, wav |-> [ SampleRate |-> 16000 ],
      env |-> QuietEnv ]

\* a burst of transcript events while the transcript goroutine is not
\* running: ResultsCap of them fill the queue, MaxOver more follow
QueueEnv ==
    [ maxChunks |-> 1, minChunks |-> 0,
      script |-> << Phase({Voice}, 1) >>,
      shortLens |-> {}, ioErrors |-> FALSE, opens |-> {TRUE},
      connects |-> {TRUE}, maxEvents |-> ResultsCap + MaxOver,
      texts |-> {LeaveText},
      times |-> {400 * Millisecond}, eventPhases |-> {1}, sync |-> FALSE,
      maxAhead |-> MaxAhead, filler |-> ResultsCap ]

QueueWorld ==
    [ config |-> [ CoarseConfig EXCEPT !.EnableSTT = TRUE ],
      wav |-> [ SampleRate |-> 16000 ], env |-> QueueEnv ]

\* speech and silence from a file whose reads may fail at any point
IoEnv ==
    [ maxChunks |-> 6, minChunks |-> 0,
      script |-> << Phase({Voice, Quiet}, 6) >>,
      shortLens |-> {}, ioErrors |-> TRUE, opens |-> {TRUE},
      connects |-> {TRUE}, maxEvents |-> 0, texts |-> {}, times |-> {},
      eventPhases |-> {}, sync |-> FALSE, maxAhead |-> MaxAhead,
      filler |-> 0 ]

IoWorld ==
    [ config |-> CoarseConfig, wav |-> [ SampleRate |-> 16000 ], env |-> IoEnv ]

\* speech, then silence, with transcript events stamped early or late
StampEnv ==
    [ maxChunks |-> 13 + MaxVoice, minChunks |-> 0,
      script |-> << Phase({Voice}, MaxVoice), Phase({Quiet}, 13) >>,
      shortLens |-> {}, ioErrors |-> FALSE, opens |-> {TRUE},
      connects |-> {TRUE}, maxEvents |-> MaxEvents,
      texts |-> {LeaveText, BeepText},
      times |-> {400 * Millisecond, 2 * Second}, eventPhases |-> {1, 2},
      sync |-> FALSE, maxAhead |-> MaxAhead, filler |-> 0 ]

StampWorld ==
    [ config |-> [ CoarseConfig EXCEPT !.EnableSTT = TRUE ],
      wav |-> [ SampleRate |-> 16000 ], env |-> StampEnv ]

\* speech only, with up to two transcript events that match a phrase
PhraseEnv ==
    [ maxChunks |-> 3, minChunks |-> 0,
      script |-> << Phase({Voice}, 3) >>,
      shortLens |-> {}, ioErrors |-> FALSE, opens |-> {TRUE},
      connects |-> {TRUE}, maxEvents |-> 2,
      texts |-> {LeaveText, BeepText, ToneText},
      times |-> {400 * Millisecond, 800 * Millisecond}, eventPhases |-> {1},
      sync |-> FALSE, maxAhead |-> MaxAhead, filler |-> 0 ]

PhraseWorld ==
    [ config |-> [ CoarseConfig EXCEPT !.EnableSTT = TRUE ],
      wav |-> [ SampleRate |-> 16000 ], env |-> PhraseEnv ]

\* a tone of up to 19 chunks and the chunk that ends it, for several
\* chunk durations (in milliseconds)
HitDurations == {8, 16, 20, 25, 32, 40, 100}

HitEnv ==
    [ maxChunks |-> 20, minChunks |-> 0,
      script |-> << Phase({ToneA}, 19), Phase({Quiet, Voice}, 1) >>,
      shortLens |-> {}, ioErrors |-> FALSE, opens |-> {TRUE},
      connects |-> {TRUE}, maxEvents |-> 0, texts |-> {}, times |-> {},
      eventPhases |-> {}, sync |-> FALSE, maxAhead |-> MaxAhead,
      filler |-> 0 ]

HitWorlds ==
    { [ config |-> [ DefaultConfig EXCEPT !.ChunkDuration = d * Millisecond ],
        wav |-> [ SampleRate |-> 16000 ], env |-> HitEnv ] : d \in HitDurations }

\* speech with the phrase "after the beep", a silence long enough to be
\* confirmed, then speech again
ResumeEnv ==
    [ maxChunks |-> 15, minChunks |-> 0,
      script |-> << Phase({Voice}, 1), Phase({Quiet}, 6), Phase({Voice}, 8) >>,
      shortLens |-> {}, ioErrors |-> FALSE, opens |-> {TRUE},
      connects |-> {TRUE}, maxEvents |-> 1,
      texts |-> {BeepText},
      times |-> {400 * Millisecond}, eventPhases |-> {1}, sync |-> FALSE,
      maxAhead |-> MaxAhead, filler |-> 0 ]

ResumeWorld ==
    [ config |-> [ CoarseConfig EXCEPT !.EnableSTT = TRUE ],
      wav |-> [ SampleRate |-> 16000 ], env |-> ResumeEnv ]

\* files of up to 20 chunks of which the decoder takes at most seven:
\* speech, then silence until rule 4 fires; the streamer goroutine may run
\* ahead as far as the channel lets it
BlockEnv ==
    [ maxChunks |-> 20, minChunks |-> 0,
      script |-> << Phase({Voice}, 1), Phase({Quiet}, 6) >>,
      shortLens |-> {}, ioErrors |-> FALSE, opens |-> {TRUE},
      connects |-> {TRUE}, maxEvents |-> 0, texts |-> {}, times |-> {},
      eventPhases |-> {}, sync |-> FALSE, maxAhead |-> ChanCap + 1,
      filler |-> 0 ]

BlockWorld ==
    [ config |-> CoarseConfig, wav |-> [ SampleRate |-> 16000 ], env |-> BlockEnv ]

InitIn(worlds) == \E w \in worlds : InitWith(w.config, w.wav, w.env)

Init == InitIn({FreeWorld, SttWorld})

Next ==
    \/ Start \/ Chunk \/ Check \/ EndOfStream \/ Settle \/ Final
    \/ Read \/ Send
    \/ Message \/ TRecv \/ TFound \/ TExpects \/ TSignal

Spec == Init /\ [][Next]_vars

NextNoStt ==
    \/ Start \/ Chunk \/ Check \/ EndOfStream \/ Final
    \/ Read \/ Send

SpecFree == InitIn({FreeWorld}) /\ [][NextNoStt]_vars

SpecStt == InitIn({SttWorld}) /\ [][Next]_vars

SpecTone == InitIn({ToneWorld}) /\ [][NextNoStt]_vars

SpecBeep == InitIn(BeepWorlds) /\ [][NextNoStt]_vars

SpecS4 == InitIn({S4World}) /\ [][Next]_vars

SpecDet == InitIn({DetWorld}) /\ [][Next]_vars

SpecQuiet == InitIn({QuietWorld}) /\ [][NextNoStt]_vars

SpecQueue == InitIn({QueueWorld}) /\ [][Next]_vars

SpecIo == InitIn({IoWorld}) /\ [][NextNoStt]_vars

SpecStamp == InitIn({FreeWorld, StampWorld}) /\ [][Next]_vars

SpecPhrase == InitIn({PhraseWorld}) /\ [][Next]_vars

SpecHits == InitIn(HitWorlds) /\ [][NextNoStt]_vars

SpecResume == InitIn({ResumeWorld}) /\ [][Next]_vars

\* the decoder and the streamer goroutine each keep running while they can
DecoderSteps == Start \/ Chunk \/ Check \/ EndOfStream \/ Final

StreamerSteps == Read \/ Send

SpecBlockFair ==
    /\ InitIn({BlockWorld})
    /\ [][NextNoStt]_vars
    /\ WF_vars(DecoderSteps)
    /\ WF_vars(StreamerSteps)

(***************************************************************************)
(* Properties                                                              *)
(***************************************************************************)
\* the Result the engine holds
TheResult == Deref(decisionResult)

\* a step of the decoder that assigns the Result
Decides == resultWrites' # resultWrites

\* C1: across the whole run of Process the Result is assigned exactly once,
\* by one firing of a priority rule or by one application of the
\* end-of-stream fallback: never twice, and never not at all once Process
\* has returned.
C1_ExactlyOneResult ==
    /\ resultWrites <= 1
    /\ (resultWrites = 1) = ~IsNil(decisionResult)
    /\ (resultBy = "rule") = decisionMade
    /\ (resultBy = "none") = (resultWrites = 0)
    /\ pc = "done" => resultWrites = 1 /\ resultBy \in {"rule", "final"}

C1_Witness ==
    /\ pc = "done"
    /\ sttEnabled
    /\ resultBy = "rule"
    /\ resultWrites = 1

\* the priority table of the specification: the rules whose condition
\* holds at the instant now
Applicable(now) ==
    { r \in 1..4 :
        CASE r = 1 -> ~IsNil(beepDetected) /\ beepConfirmedAt > 0
          [] r = 2 -> /\ phraseFound /\ firstSilenceAt > 0 /\ ~expectsBeep
                      /\ now - firstSilenceAt >= 1 * Second
          [] r = 3 -> /\ expectsBeep /\ firstSilenceAt > 0
                      /\ now - firstSilenceAt >= 5 * Second
          [] r = 4 -> /\ firstSilenceAt > 0 /\ silDet.hadSpeech /\ ~expectsBeep
                      /\ now - firstSilenceAt >= config.BeepWaitTimeout }

TableDrop(r) ==
    IF r = 1 THEN Deref(beepDetected).EndTime + 50 * Millisecond
    ELSE firstSilenceAt + 200 * Millisecond

TableReason(r) ==
    CASE r = 1 -> ReasonBeepConfirmed
      [] r = 2 -> ReasonPhraseSilence
      [] r = 3 -> ReasonPhraseBeepTimeout
      [] r = 4 -> ReasonSilenceTimeout

\* C2: at every decision check the outcome is the first rule of the priority
\* table whose condition holds on the engine state at that instant, with
\* that rule's drop time and reason, and no decision if no rule's condition
\* holds; a confirmed beep wins whatever the phrase and silence state.
C2_PriorityTable ==
    [][ (pc = "check" /\ pc' = "loop") =>
          LET rules == Applicable(lastChunkTime)
          IN  IF rules = {}
              THEN ~Decides /\ decisionMade' = decisionMade
                            /\ decisionResult' = decisionResult
              ELSE LET r == CHOOSE x \in rules : \A y \in rules : x <= y
                   IN  /\ Decides
                       /\ decisionMade'
                       /\ Deref(decisionResult').RecommendedDropTime = TableDrop(r)
                       /\ Deref(decisionResult').Reason = TableReason(r)
                       /\ Deref(decisionResult').DecisionMadeAt = lastChunkTime ]_vars

C2_Witness ==
    /\ decisionMade
    /\ TheResult.Reason = ReasonBeepConfirmed
    /\ expectsBeep
    /\ phraseFound
    /\ firstSilenceAt > 0
    /\ TheResult.DecisionMadeAt - firstSilenceAt >= 5 * Second

\* a step of the decoder that receives and processes one chunk
ChunkStep == pc = "loop" /\ shape' # shape

FullChunk(c) == c.n = SamplesPerChunk(config, wav.SampleRate)

\* the least whole number of chunk durations that is d or more
FirstEndAfter(d) ==
    config.ChunkDuration * ((d + config.ChunkDuration - 1) \div config.ChunkDuration)

\* the tone of a tone-then-silence stream ends where its first silent chunk starts
ToneEnd == shape[1] * config.ChunkDuration

ToneChunks == (300 * Millisecond) \div DefaultConfig.ChunkDuration

\* C3 as stated: a tone of at least 300 ms followed by at least 500 ms of
\* silence, exactly 500 ms included, after which the stream ends, yields
\* BEEP_CONFIRMED with drop = beep.end + 50 ms.
C3_Original ==
    ( /\ pc = "done"
      /\ Len(shape) = 2
      /\ shape[1] >= ToneChunks
      /\ shape[2] * config.ChunkDuration >= 500 * Millisecond
      /\ FullChunk(chunk) )
    => /\ TheResult.Reason = ReasonBeepConfirmed
       /\ TheResult.RecommendedDropTime = ToneEnd + 50 * Millisecond

\* C3: a tone of at least 300 ms followed by silence in which some chunk
\* starts at least 500 ms after the tone's end (520 ms of silence at 20 ms
\* chunks) yields BEEP_CONFIRMED by rule 1 on that chunk, with
\* drop = beep.end + 50 ms; with exactly 500 ms of silence before the stream
\* ends the Result is BEEP_AT_END with the same drop time.
C3_BeepConfirmed ==
    ( /\ pc = "done"
      /\ Len(shape) = 2
      /\ shape[1] >= ToneChunks )
    => /\ (shape[2] - 1) * config.ChunkDuration >= 500 * Millisecond
          => /\ resultBy = "rule"
             /\ TheResult.Reason = ReasonBeepConfirmed
             /\ TheResult.RecommendedDropTime = ToneEnd + 50 * Millisecond
             /\ TheResult.DecisionMadeAt =
                    ToneEnd + FirstEndAfter(500 * Millisecond) + config.ChunkDuration
       /\ (shape[2] - 1) * config.ChunkDuration < 500 * Millisecond
          => /\ resultBy = "final"
             /\ TheResult.Reason = ReasonBeepAtEnd
             /\ TheResult.RecommendedDropTime = ToneEnd + 50 * Millisecond

C3_Witness ==
    /\ pc = "done"
    /\ Len(shape) = 2
    /\ shape[1] = ToneChunks
    /\ shape[2] * config.ChunkDuration = 520 * Millisecond
    /\ TheResult.Reason = ReasonBeepConfirmed

\* the beep a chunk is verified against when the chunk at lo <= delta < 500 ms
\* counts: the one it emitted itself, or the pending one
VerifiedBeep == IF ~IsNil(beepEvent') THEN beepEvent' ELSE beepDetected

NoteAppended ==
    /\ signals' # <<>>
    /\ signals'[Len(signals')].Type = "beep"
    /\ signals'[Len(signals')].Timestamp = chunk'.Timestamp
    /\ signals'[Len(signals')].Details.text = IntermediateNote

Discarded == IsNil(beepDetected') /\ beepConfirmedAt' = 0 /\ NoteAppended

\* C4 as stated: a speech chunk that starts in [beep.end, beep.end + 500 ms),
\* the chunk on which the BeepEvent was emitted included, discards the beep
\* and appends the intermediate-beep note while that chunk is processed.
C4_Original ==
    [][ ( /\ ChunkStep
          /\ ~IsNil(VerifiedBeep)
          /\ ~IsNil(beepEvent') \/ beepConfirmedAt = 0
          /\ chunk'.Timestamp - Deref(VerifiedBeep).EndTime >= 0
          /\ chunk'.Timestamp - Deref(VerifiedBeep).EndTime < 500 * Millisecond
          /\ sound'.rms >= 3 * config.SilenceThreshold )
        => Discarded ]_vars

\* C4: while a beep is pending, a chunk that is not silent (speech or
\* ambiguous) and starts strictly after beep.end and before
\* beep.end + 500 ms discards the beep, which is then never confirmed, and
\* the intermediate-beep note is appended while that chunk is processed; the
\* chunk on which the BeepEvent was emitted does not discard it.
C4_IntermediateBeep ==
    [][ ChunkStep =>
          /\ ( /\ ~IsNil(beepDetected)
               /\ beepConfirmedAt = 0
               /\ chunk'.Timestamp - Deref(beepDetected).EndTime > 0
               /\ chunk'.Timestamp - Deref(beepDetected).EndTime < 500 * Millisecond
               /\ sound'.rms >= config.SilenceThreshold )
             => Discarded
          /\ ~IsNil(beepEvent') => beepDetected' = beepEvent' /\ beepConfirmedAt' = 0 ]_vars

C4_Witness ==
    /\ pc = "check"
    /\ IsNil(beepDetected)
    /\ IsNil(beepEvent)
    /\ signals # <<>>
    /\ signals[Len(signals)].Details.text = IntermediateNote
    /\ signals[Len(signals)].Timestamp = chunk.Timestamp
    /\ sound = Murmur

\* C5: every SilenceEvent with Confirmed = true reports a silent run that
\* has itself lasted at least 2 s.
C5_ConfirmedRun ==
    (~IsNil(silenceEvent) /\ Deref(silenceEvent).Confirmed)
    => Deref(silenceEvent).EndTime - Deref(silenceEvent).StartTime >= 2 * Second

SilenceBegins == shape[1] * config.ChunkDuration

DeadAirFrom ==
    LET starts == (IF firstSilenceAt > 0 THEN {firstSilenceAt} ELSE {})
                  \cup (IF ~IsNil(beepDetected) /\ Deref(beepDetected).EndTime > 0
                        THEN {Deref(beepDetected).EndTime} ELSE {})
    IN  IF starts = {} THEN Nil
        ELSE Some(CHOOSE x \in starts : \A y \in starts : x <= y)

\* C8: in every Result, from a rule or from the end-of-stream fallback,
\* deadAir = decisionMadeAt - e where e is the earlier of firstSilenceAt and
\* beep.end among those that exist, and 0 if neither exists.
C8_DeadAir ==
    [][ Decides =>
          LET r == Deref(decisionResult')
          IN  r.DeadAir = IF IsNil(DeadAirFrom) THEN 0
                          ELSE r.DecisionMadeAt - Deref(DeadAirFrom) ]_vars

\* C9: the silence detector emits a SilenceEvent only after a chunk was
\* classified as speech (RMS >= 3 x SilenceThreshold), so a confirmed
\* silence the engine has recorded implies hadSpeech.
C9_SilenceAfterSpeech ==
    /\ [](~IsNil(silenceEvent) => silDet.hadSpeech)
    /\ [](firstSilenceAt > 0 => silDet.hadSpeech)
    /\ [][ (silDet'.hadSpeech /\ ~silDet.hadSpeech) =>
             sound'.rms >= 3 * config.SilenceThreshold ]_vars

C9_Witness ==
    /\ ~IsNil(silenceEvent)
    /\ ~Deref(silenceEvent).Confirmed
    /\ silDet.hadSpeech
    /\ firstSilenceAt = 0

\* the time the streamer advances by for a full chunk
FullChunkTime ==
    ActualDuration(SamplesPerChunk(config, wav.SampleRate), wav.SampleRate)

\* C10 as stated: every BeepEvent spans at least minHits x ChunkDuration.
C10_Original ==
    \A i \in 1..Len(beepDet.allBeeps) :
        beepDet.allBeeps[i].EndTime - beepDet.allBeeps[i].StartTime
            >= beepDet.minHits * config.ChunkDuration

\* C10: every BeepEvent spans at least minHits x the time of a full chunk
\* of samples, which is ChunkDuration when sampleRate x ChunkDuration is a
\* whole number of samples and less otherwise; runs ended by a frequency
\* deviation included.
C10_BeepSpan ==
    \A i \in 1..Len(beepDet.allBeeps) :
        beepDet.allBeeps[i].EndTime - beepDet.allBeeps[i].StartTime
            >= beepDet.minHits * FullChunkTime

C10_Witness ==
    /\ ~IsNil(beepEvent)
    /\ sound = ToneB
    /\ FullChunkTime < config.ChunkDuration
    /\ Deref(beepEvent).EndTime - Deref(beepEvent).StartTime = beepDet.minHits * FullChunkTime

(***************************************************************************)
(* C11 - C20                                                               *)
(***************************************************************************)

\* C11: every BeepEvent the beep detector emits spans at least
\* BeepMinDuration: end >= start + BeepMinDuration.
C11_MinDuration ==
    \A i \in 1..Len(beepDet.allBeeps) :
        beepDet.allBeeps[i].EndTime
            >= beepDet.allBeeps[i].StartTime + config.BeepMinDuration

\* C12: every Signal in the Result's list has a timestamp no later than the
\* Result's decisionMadeAt, the transcript events carrying timestamps no
\* later than the stream offset at which they are delivered.
C12_SignalsBeforeDecision ==
    ~IsNil(decisionResult) =>
        \A i \in 1..Len(TheResult.Signals) :
            TheResult.Signals[i].Timestamp <= TheResult.DecisionMadeAt

C12_Witness ==
    /\ ~IsNil(decisionResult)
    /\ \E i, j \in 1..Len(TheResult.Signals) :
         /\ TheResult.Signals[i].Type = "phrase"
         /\ TheResult.Signals[j].Type = "silence"
         /\ TheResult.Signals[i].Timestamp > TheResult.Signals[j].Timestamp

\* the fixed input of DetWorld has been processed: the stream's chunks
\* in their order, and the one transcript event
DetInput == pc = "done" /\ delivered = 1

\* the decision of the run over that input in which the transcript task
\* handles the event before the decoder takes the second chunk
PromptDecision ==
    [ Reason |-> ReasonPhraseBeepTimeout,
      DecisionMadeAt |-> 14 * CoarseConfig.ChunkDuration ]

\* that run exists
PromptRun ==
    /\ DetInput
    /\ TheResult.Reason = PromptDecision.Reason
    /\ TheResult.DecisionMadeAt = PromptDecision.DecisionMadeAt

\* C13: the Result is a function of the inputs: every run over the same
\* chunk sequence and the same transcript events in the same order ends
\* with the same Result, however the transcript task is scheduled relative
\* to the decoder.  For the input of DetWorld: with the Result of the run
\* that handles the event at once.
C13_Deterministic ==
    DetInput =>
        /\ TheResult.Reason = PromptDecision.Reason
        /\ TheResult.DecisionMadeAt = PromptDecision.DecisionMadeAt

\* the stream has ended and every chunk of it has been through the decoder
StreamDone == pc = "done" /\ spc = "done" /\ ch = <<>>

\* what holds of a stream in which every chunk is silent, at every step
NothingHeard ==
    /\ ~silDet.hadSpeech
    /\ IsNil(silenceEvent)
    /\ firstSilenceAt = 0
    /\ ~decisionMade
    /\ signals = <<>>

PhraseReasons ==
    { ReasonPhraseSilence, ReasonPhraseBeepTimeout, ReasonPhraseOnly }

\* C15: with STT disabled, or enabled and failing to connect, Process ends
\* with a Result and not an error; the transcript task is never started,
\* no transcript event is queued or read, phraseFound and expectsBeep stay
\* false, and the Result's reason is none of PHRASE_SILENCE,
\* PHRASE_BEEP_TIMEOUT, PHRASE_ONLY.
C15_WithoutStt ==
    /\ ~config.EnableSTT => ~sttEnabled
    /\ ~sttEnabled =>
         /\ tpc = "idle"
         /\ results = <<>> /\ delivered = 0
         /\ ~phraseFound /\ ~expectsBeep /\ phraseTime = 0
         /\ IsNil(detected) /\ transcript = <<>>
         /\ pc # "failed"
         /\ pc = "done" => ~IsNil(decisionResult)
         /\ ~IsNil(decisionResult) =>
              /\ TheResult.Reason \notin PhraseReasons
              /\ TheResult.Transcript = <<>>

\* the connection failed and rule 4 fired
C15_Witness ==
    /\ config.EnableSTT
    /\ ~sttEnabled
    /\ pc = "done"
    /\ TheResult.Reason = ReasonSilenceTimeout

\* a step of the STT callback
Delivers == delivered' = delivered + 1

\* a step of the transcript task that takes an event from the queue
Takes == delivered' = delivered /\ results' # results

\* C16: the queue of transcript events never holds more than ResultsCap
\* events; the callback always returns: with room it puts the new event
\* behind the queued ones, on a full queue it drops the new event and
\* leaves the queued ones as they are; the transcript task takes the
\* events from the front, so in the order of their arrival.
C16_BoundedQueue ==
    /\ [](Len(results) <= ResultsCap)
    /\ [][ /\ Delivers =>
                IF Len(results) < ResultsCap
                THEN /\ Len(results') = Len(results) + 1
                     /\ SubSeq(results', 1, Len(results)) = results
                ELSE results' = results
           /\ Takes =>
                /\ results # <<>>
                /\ event' = Some(Head(results))
                /\ results' = Tail(results) ]_vars

\* an event was dropped on a full queue, and the queued events differ
C16_Witness ==
    /\ Len(results) = ResultsCap
    /\ delivered > ResultsCap + Len(transcript)
    /\ results[ResultsCap] # results[1]

\* C17: when a read of the source fails after streaming has started,
\* processing is aborted with an error: Process does not return a Result.
C17_ReadFailure == readErr => ~(pc = "done" /\ ~IsNil(decisionResult))

C19_StopsAtDecision == [][ ChunkStep => ~decisionMade ]_vars

\* a step of the decoder that runs checkForDecision
CheckStep == pc = "check" /\ pc' = "loop"

\* the transcript task has set phraseFound for a match that expects a beep
\* and has not yet set expectsBeep for it
HalfUpdated ==
    /\ tpc = "expects"
    /\ phraseFound
    /\ PhraseExpectsBeep(LowerText(Deref(phraseEvent).Phrase))
    /\ ~expectsBeep

\* C20: the decoder and the transcript task exclude each other on the
\* shared fields, and the transcript task's update for one match is atomic
\* for the decoder: no decision check runs on a state where phraseFound is
\* set and expectsBeep for the same match is not yet.
C20_AtomicUpdate == [][ CheckStep => ~HalfUpdated ]_vars

(***************************************************************************)
(* C21 - C28                                                               *)
(***************************************************************************)
PhraseSignals == { i \in 1..Len(signals) : signals[i].Type = "phrase" }

\* C21: the phrase detector triggers once: after the first matching text
\* the recorded PhraseEvent is not replaced and no further PhraseEvent is
\* returned, so the engine appends at most one phrase Signal per stream.
C21_TriggersOnce ==
    /\ [](Cardinality(PhraseSignals) <= 1)
    /\ [][ ~IsNil(detected) => detected' = detected ]_vars

\* C22: when the end-of-stream fallback chooses PHRASE_ONLY, the drop time
\* is phraseTime + 1 s, phraseTime being the timestamp of the first matched
\* transcript event, whatever later events matched.
C22_PhraseOnlyDrop ==
    (resultBy = "final" /\ TheResult.Reason = ReasonPhraseOnly) =>
        TheResult.RecommendedDropTime = phraseTime + 1 * Second

\* SilenceThreshold <= RMS < 3 x SilenceThreshold
Ambiguous(s) == s.rms >= config.SilenceThreshold /\ s.rms < silDet.speechThreshold

\* a step of the decoder that processes an ambiguous chunk
AmbiguousStep == ChunkStep /\ Ambiguous(sound')

\* C23 as stated: an ambiguous chunk leaves the silence detector's state
\* untouched.
C23_Original == [][ AmbiguousStep => silDet' = silDet ]_vars

\* C23: an ambiguous chunk does not set hadSpeech, moves no silenceStart
\* and yields no SilenceEvent, but it ends a silent run as speech does:
\* inSilence is cleared, and potentialEndTime and confirmedEnd are cleared
\* too when the run, up to the end of this chunk, is shorter than 2 s.
C23_AmbiguousChunk ==
    [][ AmbiguousStep =>
          LET now   == chunk'.Timestamp + chunk'.Duration
              short == silDet.inSilence /\ now - silDet.silenceStart < 2 * Second
          IN  /\ silDet'.hadSpeech = silDet.hadSpeech
              /\ silDet'.silenceStart = silDet.silenceStart
              /\ IsNil(silenceEvent')
              /\ ~silDet'.inSilence
              /\ silDet'.potentialEndTime =
                     IF short THEN 0 ELSE silDet.potentialEndTime
              /\ silDet'.confirmedEnd =
                     IF short THEN FALSE ELSE silDet.confirmedEnd
      ]_vars

\* an ambiguous chunk has just ended the silent run that the chunk before
\* it started, after speech
C23_Witness ==
    /\ pc = "check"
    /\ Ambiguous(sound)
    /\ silDet.hadSpeech
    /\ chunk.Timestamp > 0
    /\ silDet.silenceStart + config.ChunkDuration = chunk.Timestamp
    /\ ~silDet.inSilence

\* a step of the decoder whose chunk ends the run the beep detector tracks
RunEnds == ChunkStep /\ beepDet.beepActive /\ ~beepDet'.beepActive

\* C24 as stated: the threshold is max(5, ceil(150 ms / ChunkDuration)); a
\* run of fewer beep-like chunks than that yields no BeepEvent.
C24_Original ==
    [][ RunEnds =>
          (beepDet.consecutiveHits < MinHitsCeil(config) => IsNil(beepEvent'))
      ]_vars

\* C24: for every configured ChunkDuration the beep detector's hit
\* threshold is minHits = max(5, floor(150 ms / ChunkDuration)); a tracked
\* run that ends after fewer beep-like chunks is discarded without a
\* BeepEvent, a run of minHits or more yields one (with 20 ms chunks: 7).
C24_HitThreshold ==
    [][ RunEnds =>
          LET floorHits == Max(5, (150 * Millisecond) \div config.ChunkDuration)
          IN  /\ IsNil(beepEvent') = (beepDet.consecutiveHits < floorHits)
              /\ ~IsNil(beepEvent') =>
                   Deref(beepEvent').EndTime - Deref(beepEvent').StartTime
                       = beepDet.consecutiveHits * config.ChunkDuration
      ]_vars

\* with 20 ms chunks, a run of exactly 7 beep-like chunks has been reported
C24_Witness ==
    /\ config.ChunkDuration = 20 * Millisecond
    /\ ~IsNil(beepEvent)
    /\ Deref(beepEvent).EndTime - Deref(beepEvent).StartTime = 7 * config.ChunkDuration

SilenceReasons ==
    { ReasonPhraseSilence, ReasonPhraseBeepTimeout, ReasonSilenceTimeout }

\* a check in which rule 2, 3 or 4 fires
SilenceRuleFires ==
    /\ CheckStep
    /\ Decides
    /\ Deref(decisionResult').Reason \in SilenceReasons

\* C25: when a silence-based rule (2, 3 or 4) fires mid-stream, the
\* confirmed silence it relies on is still in progress: no speech chunk
\* has been processed after firstSilenceAt; in particular the chunk whose
\* check fires the rule is not speech, and the silent run that began at
\* firstSilenceAt is the detector's current run.
C25_SilenceInProgress ==
    [][ SilenceRuleFires =>
          /\ sound.rms < silDet.speechThreshold
          /\ silDet.inSilence
          /\ silDet.silenceStart = firstSilenceAt
      ]_vars

\* the text contains a configured end phrase that itself contains "beep"
\* or "tone"
AnnouncesBeep(text) ==
    \E i \in 1..Len(config.EndPhrases) :
        /\ MatchString(config.EndPhrases[i], text)
        /\ PhraseExpectsBeep(LowerText(config.EndPhrases[i]))

\* the transcript task has finished with the event it took last
Handled == ~IsNil(event) /\ tpc \in {"recv", "done"}

\* C26: after the transcript task has processed an event whose text
\* contains a configured end phrase that contains "beep" or "tone",
\* expectsBeep is true, also when the text contains another configured
\* phrase that comes earlier in the list.
C26_ExpectsBeep ==
    (Handled /\ AnnouncesBeep(Deref(event).Text)) => expectsBeep

BeepReasons == { ReasonBeepConfirmed, ReasonBeepAtEnd }

\* C27: a BeepEvent is emitted only while processing a chunk of at least
\* 64 samples that is not beep-like (not a tone in the band, or a tone
\* that deviates from the tracked frequency); the engine holds no beep
\* that the detector has not emitted, so a tone still tracked when the
\* stream ends gives no BeepEvent and neither BEEP_CONFIRMED nor
\* BEEP_AT_END is chosen because of it.
C27_NoBeepAtEnd ==
    /\ [][ (ChunkStep /\ ~IsNil(beepEvent')) =>
             /\ chunk'.n >= 64
             /\ beepDet.beepActive
             /\ \/ ~sound'.isTone
                \/ sound'.freq < config.BeepMinFreq
                \/ sound'.freq > config.BeepMaxFreq
                \/ sound'.amp < config.BeepMinAmplitude
                \/ FreqDeviates(sound'.freq, beepDet.beepFrequency)
             /\ beepDet'.allBeeps = Append(beepDet.allBeeps, Deref(beepEvent'))
       ]_vars
    /\ [][ beepDet'.allBeeps # beepDet.allBeeps => ~IsNil(beepEvent') ]_vars
    /\ [](beepDet.allBeeps = <<>> =>
            /\ IsNil(beepDetected)
            /\ ~IsNil(decisionResult) => TheResult.Reason \notin BeepReasons)

\* the stream has ended on a short chunk while a tone of minHits chunks
\* was still tracked
C27_Witness ==
    /\ pc = "done"
    /\ beepDet.beepActive
    /\ beepDet.consecutiveHits >= beepDet.minHits
    /\ chunk.n < 64
    /\ beepDet.allBeeps = <<>>
    /\ TheResult.Reason = ReasonFallback

\* C28: after a decision made mid-stream has stopped the decoder, the
\* streamer goroutine eventually terminates (closing the channel and the
\* file); it is never left blocked on a send into the full channel.
C28_StreamerTerminates == decisionMade ~> (spc = "done")

\* the streamer goroutine holds a chunk it cannot send: the channel is
\* full and Process has returned
Blocked == pc = "done" /\ spc = "send" /\ Len(ch) = ChanCap

====
